---- MODULE Spec2Model ----
(***************************************************************************)
(* Model of src/main.py: the Google Drive -> Vision OCR -> JSONL -> Drive  *)
(* pipeline.  One behaviour is a sequence of invocations of main() against *)
(* the same Drive input folder; the local disk and the Drive output folder *)
(* persist from one invocation to the next.                                *)
(*                                                                         *)
(* Representation.  A Python str is a sequence of characters (one-element  *)
(* strings).  A remote display name and a local path are sequences of path *)
(* components.  The bytes of an image are a sequence of download chunks.   *)
(* The output file is a sequence of characters in which "\n" ends a line.  *)
(***************************************************************************)
EXTENDS Integers, Sequences, FiniteSets, TLC

\* ------------------------------------------------------------------ bounds
MaxFiles == 3   \* most image files the source folder holds
MaxRuns  == 2   \* invocations of main() in one behaviour
PageSize == 2   \* files the listing service puts on one result page

\* ------------------------------------------------------- program constants
LOCAL_IMAGE_DIR   == "downloaded_images"
OUTPUT_JSONL_FILE == "google_ocr_output.jsonl"
OUTPUT_FOLDER_ID  == "out_folder"

\* ---------------------------------------------------------- input domains
\* Display names of the remote files, split at the path separator.
Names == { <<"a.png">>, <<"..", "b.png">> }

BlankImg == <<"blank">>          \* an image without text, one chunk
TotalImg == <<"tot0", "tot1">>   \* an image with text, two chunks
Contents == { BlankImg, TotalImg }

RemoteFile == [name : Names, content : Contents]

RECURSIVE SeqsUpTo(_, _)
SeqsUpTo(S, n) ==
  IF n = 0 THEN { <<>> }
  ELSE LET shorter == SeqsUpTo(S, n - 1)
       IN  shorter \cup { Append(s, x) : s \in { t \in shorter : Len(t) = n - 1 }, x \in S }

Folders == SeqsUpTo(RemoteFile, MaxFiles)

\* Python values that reach json.dumps: a str or None.
PyStr(s) == [t |-> "str", v |-> s]
PyNone   == [t |-> "None", v |-> <<>>]

\* ------------------------------------------------------------- os.path
os_path_join(dir, name) == <<dir>> \o name

basename(path) == path[Len(path)]

\* The file a path denotes: ".." steps resolved as open() resolves them.
RECURSIVE Resolve(_, _)
Resolve(done, rest) ==
  IF rest = <<>> THEN done
  ELSE IF Head(rest) = ".."
       THEN Resolve(IF done = <<>> THEN <<>> ELSE SubSeq(done, 1, Len(done) - 1), Tail(rest))
       ELSE Resolve(Append(done, Head(rest)), Tail(rest))

FileOf(path) == Resolve(<<>>, path)

LocalFiles == { FileOf(os_path_join(LOCAL_IMAGE_DIR, n)) : n \in Names }

NoFile == [exists |-> FALSE, bytes |-> <<>>]

\* ------------------------------------------------------ remote services
\* files().list(q, fields="files(id, name)").execute(): one request, hence the
\* first result page only; the identifier of a file is its position in the folder.
files_list(fld) ==
  [k \in 1..(IF Len(fld) < PageSize THEN Len(fld) ELSE PageSize) |->
      [id |-> k, name |-> fld[k].name]]

\* The annotations the OCR service finds in an image: the whole text first,
\* then one annotation per word.
text_detection(bytes) ==
  IF bytes = TotalImg THEN << <<"T", "\n", "1">>, <<"T">>, <<"1">> >> ELSE <<>>

\* files().create(body, media_body, fields="id").execute(): the service stores
\* a new file under an identifier of its own choosing and answers with it.
NewId(store) == ToString(Len(store) + 1)

\* Mutant: a file of that name already in the store is updated in place.
files_create_update(store, body, media) ==
  IF \E k \in 1..Len(store) : store[k].name = body.name
  THEN [k \in 1..Len(store) |->
          IF store[k].name = body.name THEN [store[k] EXCEPT !.content = media]
          ELSE store[k]]
  ELSE Append(store, [id |-> NewId(store), name |-> body.name,
                      parents |-> body.parents, content |-> media])

files_create(store, body, media) ==
  Append(store, [id |-> NewId(store), name |-> body.name,
                 parents |-> body.parents, content |-> media])

\* ------------------------------------------------------------ json.dumps
EscapeChar(c) ==
  IF c = "\n" THEN "\\n"
  ELSE IF c = "\"" THEN "\\\""
  ELSE IF c = "\\" THEN "\\\\"
  ELSE c

Escape(s) == [k \in 1..Len(s) |-> EscapeChar(s[k])]

json_dumps_value(x) ==
  IF x.t = "None" THEN <<"null">> ELSE <<"\"">> \o Escape(x.v) \o <<"\"">>

json_dumps_key(k) == <<"\"", k, "\"", ":">>

\* A dict is the sequence of its (key, value) items in insertion order.
RECURSIVE json_dumps_items(_)
json_dumps_items(d) ==
  IF d = <<>> THEN <<>>
  ELSE json_dumps_key(d[1].key) \o json_dumps_value(d[1].val)
       \o (IF Len(d) = 1 THEN <<>> ELSE <<",">> \o json_dumps_items(Tail(d)))

json_dumps(d) == <<"{">> \o json_dumps_items(d) \o <<"}">>

\* ------------------------------------------------------- run_google_ocr
\* Mutant: no annotation yields None instead of the empty string.
extracted_text_none(text_annotations) ==
  IF text_annotations # <<>> THEN PyStr(text_annotations[1]) ELSE PyNone

extracted_text(text_annotations) ==
  IF text_annotations # <<>> THEN PyStr(text_annotations[1]) ELSE PyStr(<<>>)

utcnow_isoformat(now) == PyStr(<<ToString(now)>>)

record(image_path, text_annotations, now) ==
  << [key |-> "image_name",          val |-> PyStr(<<basename(image_path)>>)],
     [key |-> "extracted_text",      val |-> extracted_text(text_annotations)],
     [key |-> "processed_timestamp", val |-> utcnow_isoformat(now)] >>

output_line(image_path, text_annotations, now) ==
  json_dumps(record(image_path, text_annotations, now)) \o <<"\n">>

\* Mutant: the output file is opened in append mode.
open_a(old) == [exists |-> TRUE, chars |-> old.chars]

\* open(output_jsonl, "w"): the file is created, or emptied when it exists.
open_w(old) == [exists |-> TRUE, chars |-> <<>>]

\* What the buffered writer holds back and what reaches the disk when `line`
\* is written: either the whole buffer is spilled or nothing is.
Buffered(disk, buf, line, spill) ==
  IF spill THEN [disk |-> [disk EXCEPT !.chars = @ \o buf \o line], buf |-> <<>>]
  ELSE [disk |-> disk, buf |-> buf \o line]

\* Leaving the `with open(...)` block, normally or by an exception: flush, close.
Closed(disk, buf) == [disk EXCEPT !.chars = @ \o buf]

\* ------------------------------------------------------------------ state
VARIABLES
  folder,       \* the image files of the Drive input folder, in listing order
  run,          \* number of the current invocation of main()
  pc,           \* position of the invocation in main.py
  err,          \* the remote call that raised in this invocation, or "none"
  dirExists,    \* whether LOCAL_IMAGE_DIR exists
  fs,           \* the local image files: LocalFiles -> [exists, bytes]
  outDisk,      \* OUTPUT_JSONL_FILE on disk: [exists, chars]
  outBuf,       \* characters written to f and not yet on disk
  outOpen,      \* whether f is open
  remote,       \* the files of the Drive output folder
  clock,        \* datetime.utcnow()
  files,        \* download_images_from_drive: the listing response
  image_paths,  \* download_images_from_drive / main: the paths
  i,            \* index of the current file (download loop) or path (OCR loop)
  content,      \* run_google_ocr: bytes of the image last read
  inflight,     \* indices of the paths whose OCR request is unanswered
  response,     \* run_google_ocr: response.text_annotations
  printed,      \* the identifier upload_file_to_drive printed
  upload_ret,   \* the value upload_file_to_drive returned to main
  written,      \* history: the records this invocation passed to f.write
  ocrReqs,      \* history: the indices this invocation sent OCR requests for
  dlDone,       \* history: the listed files this invocation downloaded in full
  calls,        \* history: how often this invocation entered each stage
  published,    \* history: the invocations so far that ran to completion
  start         \* history: disk and Drive as they were when the invocation began

vars == << folder, run, pc, err, dirExists, fs, outDisk, outBuf, outOpen, remote,
           clock, files, image_paths, i, content, inflight, response, printed,
           upload_ret, written, ocrReqs, dlDone, calls, published, start >>

disk == << dirExists, fs, outDisk, outBuf, outOpen >>
locals == << files, image_paths, i, content, inflight, response >>
history == << written, ocrReqs, dlDone, published, start >>

Unset == [t |-> "unset", v |-> <<>>]
NoCalls == [fetch |-> 0, ocr |-> 0, upload |-> 0]

\* What an earlier invocation may have left in OUTPUT_JSONL_FILE.
StaleLine == output_line(<<LOCAL_IMAGE_DIR, "old.png">>, <<>>, 0)

Fresh ==
  /\ pc = "start" /\ err = "none"
  /\ files = <<>> /\ image_paths = <<>> /\ i = 0
  /\ content = <<>> /\ inflight = {} /\ response = <<>>
  /\ printed = Unset /\ upload_ret = Unset
  /\ written = <<>> /\ ocrReqs = <<>> /\ dlDone = {} /\ calls = NoCalls

Init ==
  /\ folder \in Folders
  /\ run = 1
  /\ dirExists = FALSE
  /\ fs = [f \in LocalFiles |-> NoFile]
  /\ outDisk \in { [exists |-> FALSE, chars |-> <<>>], [exists |-> TRUE, chars |-> StaleLine] }
  /\ outBuf = <<>> /\ outOpen = FALSE
  /\ remote = <<>>
  /\ clock = 1
  /\ published = 0
  /\ Fresh
  /\ start = [dirExists |-> dirExists, fs |-> fs, outDisk |-> outDisk, remote |-> remote]

\* An uncaught exception of the remote call `what`: main() ends with a traceback.
Raise(what) == pc' = "failed" /\ err' = what

\* ---------------------------------------------------------- get_credentials
GetCredentials ==
  /\ pc = "start"
  /\ pc' = "fetch"
  /\ UNCHANGED << folder, run, err, disk, remote, clock, locals, printed, upload_ret,
                  history, calls >>

GetCredentialsFail ==
  /\ pc = "start"
  /\ Raise("credentials")
  /\ UNCHANGED << folder, run, disk, remote, clock, locals, printed, upload_ret,
                  history, calls >>

\* ----------------------------------------------- download_images_from_drive
\* makedirs, then the listing; an empty listing returns [].
ListFiles ==
  /\ pc = "fetch"
  /\ dirExists' = TRUE
  /\ calls' = [calls EXCEPT !.fetch = @ + 1]
  /\ files' = files_list(folder)
  /\ image_paths' = <<>>
  /\ IF files' = <<>> THEN pc' = "fetched" /\ i' = 0
                      ELSE pc' = "dl_open" /\ i' = 1
  /\ UNCHANGED << folder, run, err, fs, outDisk, outBuf, outOpen, remote, clock,
                  content, inflight, response, printed, upload_ret, history >>

ListFail ==
  /\ pc = "fetch"
  /\ dirExists' = TRUE
  /\ calls' = [calls EXCEPT !.fetch = @ + 1]
  /\ Raise("list")
  /\ UNCHANGED << folder, run, fs, outDisk, outBuf, outOpen, remote, clock, locals,
                  printed, upload_ret, history >>

file_path == os_path_join(LOCAL_IMAGE_DIR, files[i].name)

\* io.FileIO(file_path, "wb"): the local file is created, or emptied.
DownloadOpen ==
  /\ pc = "dl_open"
  /\ fs' = [fs EXCEPT ![FileOf(file_path)] = [exists |-> TRUE, bytes |-> <<>>]]
  /\ pc' = "dl_chunk"
  /\ UNCHANGED << folder, run, err, dirExists, outDisk, outBuf, outOpen, remote, clock,
                  locals, printed, upload_ret, history, calls >>

\* Mutant: the return statement sits inside the loop body.
LoopDone_first(k, n) == TRUE

\* The loop is over once the last listed file is done; then the paths are returned.
LoopDone(k, n) == k = n

\* downloader.next_chunk(): the next chunk of the remote file is appended; after
\* the last chunk the path is recorded and the loop goes on to the next file.
DownloadChunk ==
  /\ pc = "dl_chunk"
  /\ LET f    == FileOf(file_path)
         src  == folder[files[i].id].content
         got  == Append(fs[f].bytes, src[Len(fs[f].bytes) + 1])
         done == Len(got) = Len(src)
     IN  /\ fs' = [fs EXCEPT ![f].bytes = got]
         /\ IF ~done
            THEN UNCHANGED << pc, i, image_paths, dlDone >>
            ELSE /\ image_paths' = Append(image_paths, file_path)
                 /\ dlDone' = dlDone \cup {i}
                 /\ IF LoopDone(i, Len(files))
                    THEN pc' = "fetched" /\ i' = 0
                    ELSE pc' = "dl_open" /\ i' = i + 1
  /\ UNCHANGED << folder, run, err, dirExists, outDisk, outBuf, outOpen, remote, clock,
                  files, content, inflight, response, printed, upload_ret, written,
                  ocrReqs, published, start, calls >>

\* A chunk request raises: the partly written local file stays as it is.
DownloadFail ==
  /\ pc = "dl_chunk"
  /\ Raise("download")
  /\ UNCHANGED << folder, run, disk, remote, clock, locals, printed, upload_ret,
                  history, calls >>

\* ------------------------------------------------------------------- main
\* Mutant: main() goes on whatever the fetcher returned.
nothing_to_do_never(paths) == FALSE

\* `if not image_paths: return`
nothing_to_do(paths) == paths = <<>>

MainCheck ==
  /\ pc = "fetched"
  /\ pc' = IF nothing_to_do(image_paths) THEN "empty" ELSE "ocr_open"
  /\ UNCHANGED << folder, run, err, disk, remote, clock, locals, printed, upload_ret,
                  history, calls >>

\* ------------------------------------------------------------ run_google_ocr
\* The client is built and the output file opened for writing.
OcrOpen ==
  /\ pc = "ocr_open"
  /\ calls' = [calls EXCEPT !.ocr = @ + 1]
  /\ outDisk' = open_w(outDisk)
  /\ outBuf' = <<>>
  /\ outOpen' = TRUE
  /\ IF image_paths = <<>> THEN pc' = "ocr_close" /\ i' = 0
                           ELSE pc' = "ocr_read" /\ i' = 1
  /\ UNCHANGED << folder, run, err, dirExists, fs, remote, clock, files, image_paths,
                  content, inflight, response, printed, upload_ret, history >>

\* `with open(image_path, "rb") as img: content = img.read()`
OcrRead ==
  /\ pc = "ocr_read"
  /\ content' = fs[FileOf(image_paths[i])].bytes
  /\ pc' = "ocr_request"
  /\ UNCHANGED << folder, run, err, disk, remote, clock, files, image_paths, i,
                  inflight, response, printed, upload_ret, history, calls >>

\* Mutant: the request is sent without waiting for its answer, and the loop
\* goes on to read the next image.
OcrRequest_async ==
  /\ pc = "ocr_request"
  /\ inflight' = inflight \cup {i}
  /\ ocrReqs' = Append(ocrReqs, i)
  /\ IF i = Len(image_paths) THEN pc' = "ocr_wait" /\ i' = i
                             ELSE pc' = "ocr_read" /\ i' = i + 1
  /\ UNCHANGED << folder, run, err, disk, remote, clock, files, image_paths,
                  content, response, printed, upload_ret, written, dlDone, published, start,
                  calls >>

\* text_detection(image=image): the request leaves and the call blocks.
OcrRequest ==
  /\ pc = "ocr_request"
  /\ inflight' = inflight \cup {i}
  /\ ocrReqs' = Append(ocrReqs, i)
  /\ pc' = "ocr_wait"
  /\ UNCHANGED << folder, run, err, disk, remote, clock, files, image_paths, i,
                  content, response, printed, upload_ret, written, dlDone, published, start,
                  calls >>

\* The call returns the annotations of the bytes sent.
OcrRespond ==
  /\ pc = "ocr_wait"
  /\ response' = text_detection(content)
  /\ inflight' = inflight \ {i}
  /\ pc' = "ocr_write"
  /\ UNCHANGED << folder, run, err, disk, remote, clock, files, image_paths, i,
                  content, printed, upload_ret, history, calls >>

\* Mutant: the exception is caught and the loop skips to the next image.
OcrFail_skip ==
  /\ pc = "ocr_wait"
  /\ inflight' = inflight \ {i}
  /\ err' = "ocr"
  /\ IF i = Len(image_paths) THEN pc' = "ocr_close" /\ i' = 0
                             ELSE pc' = "ocr_read" /\ i' = i + 1
  /\ UNCHANGED << folder, run, disk, remote, clock, files, image_paths,
                  content, response, printed, upload_ret, history, calls >>

\* The call raises: the exception leaves the `with` block, which closes f.
OcrFail ==
  /\ pc = "ocr_wait"
  /\ inflight' = inflight \ {i}
  /\ outDisk' = Closed(outDisk, outBuf)
  /\ outBuf' = <<>>
  /\ outOpen' = FALSE
  /\ Raise("ocr")
  /\ UNCHANGED << folder, run, dirExists, fs, remote, clock, files, image_paths, i,
                  content, response, printed, upload_ret, history, calls >>

\* The record is built, stamped and written; the loop goes on to the next path.
OcrWrite ==
  /\ pc = "ocr_write"
  /\ \E spill \in BOOLEAN :
        LET line == output_line(image_paths[i], response, clock)
            w    == Buffered(outDisk, outBuf, line, spill)
        IN  outDisk' = w.disk /\ outBuf' = w.buf
  /\ written' = Append(written, record(image_paths[i], response, clock))
  /\ clock' = clock + 1
  /\ IF i = Len(image_paths) THEN pc' = "ocr_close" /\ i' = 0
                             ELSE pc' = "ocr_read" /\ i' = i + 1
  /\ UNCHANGED << folder, run, err, dirExists, fs, outOpen, remote, files, image_paths,
                  content, inflight, response, printed, upload_ret, ocrReqs, dlDone,
                  published, start, calls >>

\* The `with` block ends: f is flushed and closed, run_google_ocr returns.
OcrClose ==
  /\ pc = "ocr_close"
  /\ outDisk' = Closed(outDisk, outBuf)
  /\ outBuf' = <<>>
  /\ outOpen' = FALSE
  /\ pc' = "upload"
  /\ UNCHANGED << folder, run, err, dirExists, fs, remote, clock, locals, printed,
                  upload_ret, history, calls >>

\* ------------------------------------------------------ upload_file_to_drive
file_metadata(local_path, folder_id) ==
  [name |-> basename(local_path), parents |-> <<folder_id>>]

\* Mutant: the function ends with `return file.get("id")`.
upload_return_id(id) == PyStr(<<id>>)

\* The function ends after its print call, without a return statement.
upload_return(id) == PyNone

Upload ==
  /\ pc = "upload"
  /\ calls' = [calls EXCEPT !.upload = @ + 1]
  /\ remote' = files_create(remote, file_metadata(<<OUTPUT_JSONL_FILE>>, OUTPUT_FOLDER_ID),
                            outDisk.chars)
  /\ LET id == NewId(remote)
     IN  printed' = PyStr(<<id>>) /\ upload_ret' = upload_return(id)
  /\ published' = published + 1
  /\ pc' = "done"
  /\ UNCHANGED << folder, run, err, disk, clock, locals, written, ocrReqs, dlDone, start >>

UploadFail ==
  /\ pc = "upload"
  /\ calls' = [calls EXCEPT !.upload = @ + 1]
  /\ Raise("upload")
  /\ UNCHANGED << folder, run, disk, remote, clock, locals, printed, upload_ret, history >>

\* ------------------------------------------------------------ entry point
\* The script is invoked again, on the disk and the Drive the last run left.
Restart ==
  /\ pc \in {"done", "empty", "failed"}
  /\ run < MaxRuns
  /\ run' = run + 1
  /\ pc' = "start" /\ err' = "none"
  /\ files' = <<>> /\ image_paths' = <<>> /\ i' = 0
  /\ content' = <<>> /\ inflight' = {} /\ response' = <<>>
  /\ printed' = Unset /\ upload_ret' = Unset
  /\ written' = <<>> /\ ocrReqs' = <<>> /\ dlDone' = {} /\ calls' = NoCalls
  /\ start' = [dirExists |-> dirExists, fs |-> fs, outDisk |-> outDisk,
               remote |-> remote]
  /\ UNCHANGED << folder, disk, remote, clock, published >>

Next ==
  \/ GetCredentials \/ GetCredentialsFail
  \/ ListFiles \/ ListFail
  \/ DownloadOpen \/ DownloadChunk \/ DownloadFail
  \/ MainCheck
  \/ OcrOpen \/ OcrRead \/ OcrRequest \/ OcrRespond \/ OcrFail \/ OcrWrite \/ OcrClose
  \/ Upload \/ UploadFail
  \/ Restart

Spec == Init /\ [][Next]_vars

\* --------------------------------------------------- the pipeline's stage
\* The stage of the spec's state machine an invocation is in.
State ==
  CASE pc \in {"start", "fetch", "dl_open", "dl_chunk"} -> "INIT"
    [] pc = "fetched" -> IF image_paths = <<>> THEN "INIT" ELSE "FETCHED"
    [] pc \in {"ocr_open", "ocr_read", "ocr_request", "ocr_wait", "ocr_write", "ocr_close"}
         -> "FETCHED"
    [] pc = "upload" -> "ANNOTATED"
    [] pc = "done"   -> "PUBLISHED"
    [] pc = "empty"  -> "EMPTY"
    [] pc = "failed" -> "FAILED"

TypeOK ==
  /\ folder \in Folders
  /\ run \in 1..MaxRuns
  /\ i \in 0..MaxFiles
  /\ Len(image_paths) <= Len(files)
  /\ outOpen \in BOOLEAN

\* ====================================================== reading the output
\* The lines of a character stream: `lines` are the "\n"-terminated ones,
\* `rest` the characters after the last "\n".
RECURSIVE SplitLines(_, _, _)
SplitLines(cs, cur, acc) ==
  IF cs = <<>> THEN [lines |-> acc, rest |-> cur]
  ELSE IF Head(cs) = "\n" THEN SplitLines(Tail(cs), <<>>, Append(acc, cur))
       ELSE SplitLines(Tail(cs), Append(cur, Head(cs)), acc)

LinesOf(cs) == SplitLines(cs, <<>>, <<>>)

UnescapeChar(c) ==
  IF c = "\\n" THEN "\n"
  ELSE IF c = "\\\"" THEN "\""
  ELSE IF c = "\\\\" THEN "\\"
  ELSE c

Unescape(s) == [k \in 1..Len(s) |-> UnescapeChar(s[k])]

RECURSIVE NextQuote(_, _)
NextQuote(ts, p) ==
  IF p > Len(ts) THEN 0 ELSE IF ts[p] = "\"" THEN p ELSE NextQuote(ts, p + 1)

Malformed == [ok |-> FALSE, items |-> <<>>]

\* A JSON value starting at token p: null or a string.
json_value(ts, p) ==
  IF p > Len(ts) THEN [ok |-> FALSE, val |-> PyNone, next |-> p]
  ELSE IF ts[p] = "null" THEN [ok |-> TRUE, val |-> PyNone, next |-> p + 1]
  ELSE IF ts[p] = "\"" /\ NextQuote(ts, p + 1) # 0
       THEN LET q == NextQuote(ts, p + 1)
            IN  [ok |-> TRUE, val |-> PyStr(Unescape(SubSeq(ts, p + 1, q - 1))), next |-> q + 1]
       ELSE [ok |-> FALSE, val |-> PyNone, next |-> p]

\* The members of a JSON object from token p on, up to its closing brace.
RECURSIVE json_members(_, _, _)
json_members(ts, p, acc) ==
  IF p + 4 > Len(ts) \/ ts[p] # "\"" \/ ts[p + 2] # "\"" \/ ts[p + 3] # ":" THEN Malformed
  ELSE LET v    == json_value(ts, p + 4)
           acc2 == Append(acc, [key |-> ts[p + 1], val |-> v.val])
       IN  IF ~v.ok \/ v.next > Len(ts) THEN Malformed
           ELSE IF ts[v.next] = "}"
                THEN (IF v.next = Len(ts) THEN [ok |-> TRUE, items |-> acc2] ELSE Malformed)
           ELSE IF ts[v.next] = "," THEN json_members(ts, v.next + 1, acc2)
           ELSE Malformed

\* json.loads of one line of the output file.
json_loads(ts) ==
  IF ts = <<>> \/ Head(ts) # "{" THEN Malformed ELSE json_members(ts, 2, <<>>)

Field(items, k) == (CHOOSE m \in { items[n] : n \in 1..Len(items) } : m.key = k).val

RecordKeys == <<"image_name", "extracted_text", "processed_timestamp">>

KeysOf(items) == [n \in 1..Len(items) |-> items[n].key]

\* Everything the program has handed to f.write so far, on disk or buffered.
stream == outDisk.chars \o outBuf

\* run_google_ocr has returned to main.
OcrReturned == pc \in {"upload", "done"} \/ (pc = "failed" /\ err = "upload")

\* The OCR service's answer for the file the k-th path denotes.
AnswerFor(k) == text_detection(fs[FileOf(image_paths[k])].bytes)

\* ================================================================== claims

\* C1: when run_google_ocr has completed on a non-empty list of paths, the
\* output file on disk consists of exactly one well-formed record line per
\* path and nothing else (no blank line, no unterminated rest, no line of an
\* earlier run), and the image_name of line k is the base name of path k.
C1_OneLinePerPath ==
  (OcrReturned /\ image_paths # <<>>) =>
     LET L == LinesOf(outDisk.chars)
     IN  /\ outDisk.exists
         /\ L.rest = <<>>
         /\ Len(L.lines) = Len(image_paths)
         /\ \A k \in 1..Len(L.lines) :
               LET r == json_loads(L.lines[k])
               IN  /\ r.ok
                   /\ r.items = written[k]
                   /\ Field(r.items, "image_name") = PyStr(<<basename(image_paths[k])>>)

C1_Witness ==
  /\ pc = "upload"
  /\ Len(image_paths) = 2
  /\ basename(image_paths[1]) # basename(image_paths[2])
  /\ start.outDisk.exists
  /\ \E k \in 1..2 : AnswerFor(k) # <<>>
  /\ Len(LinesOf(outDisk.chars).lines) = 2

\* C2: once the listing has returned no file, the invocation downloads
\* nothing, never enters run_google_ocr or upload_file_to_drive, leaves the
\* local image files, the output file and the Drive output folder as they
\* were, has created the download directory, and main returns normally.
ListedNone == calls.fetch = 1 /\ files = <<>> /\ err # "list"

C2_Quiet ==
  ListedNone =>
     /\ dirExists
     /\ dlDone = {} /\ image_paths = <<>>
     /\ fs = start.fs
     /\ outDisk = start.outDisk /\ outBuf = <<>> /\ ~outOpen
     /\ remote = start.remote
     /\ calls.ocr = 0 /\ calls.upload = 0
     /\ err = "none"
     /\ pc \in {"fetched", "empty"}

\* C2: C2_Quiet holds in every state, and from the point where main has the
\* empty list its next step is the normal return.
C2_EmptyListing ==
  /\ []C2_Quiet
  /\ [][(ListedNone /\ pc = "fetched") => pc' = "empty"]_vars

C2_Witness ==
  /\ pc = "empty"
  /\ ListedNone
  /\ start.outDisk.exists
  /\ dirExists

\* C3: within an invocation the stage only moves along INIT -> FETCHED ->
\* ANNOTATED -> PUBLISHED or INIT -> EMPTY (a raising call ends it in FAILED,
\* see C4); each stage is entered at most once; run_google_ocr starts only
\* after every listed file has been downloaded in full; the upload starts
\* only after the record of the last path is written and f is closed.
Edges ==
  { <<"INIT", "FETCHED">>, <<"FETCHED", "ANNOTATED">>, <<"ANNOTATED", "PUBLISHED">>,
    <<"INIT", "EMPTY">> }

C3_Stages ==
  /\ calls.fetch <= 1 /\ calls.ocr <= 1 /\ calls.upload <= 1
  /\ calls.ocr >= 1 =>
        /\ calls.fetch = 1
        /\ dlDone = 1..Len(files)
        /\ Len(image_paths) = Len(files)
        /\ \A k \in 1..Len(files) :
              fs[FileOf(image_paths[k])].bytes \in Contents
  /\ calls.upload >= 1 =>
        /\ calls.ocr = 1
        /\ ~outOpen /\ outBuf = <<>>
        /\ Len(written) = Len(image_paths)
        /\ Len(LinesOf(outDisk.chars).lines) = Len(image_paths)

\* C3: C3_Stages holds in every state, and every step within an invocation
\* keeps the stage or follows one edge of the state machine.
C3_StateMachine ==
  /\ []C3_Stages
  /\ [][run' = run =>
          \/ State' = State
          \/ <<State, State'>> \in Edges
          \/ State \in {"INIT", "FETCHED", "ANNOTATED"} /\ State' = "FAILED"]_vars

C3_Witness ==
  /\ State = "PUBLISHED"
  /\ run = 2
  /\ Len(files) = 2
  /\ calls = [fetch |-> 1, ocr |-> 1, upload |-> 1]

\* C4: a raising remote call ends the invocation in FAILED, which only a new
\* invocation leaves: the call is not repeated, no later file or path is
\* touched, no later stage is entered (nothing is uploaded), and the output
\* file holds the records of the paths before the failing one, in order,
\* or is as it was when the failure came before run_google_ocr.
NoRepeat(s) == \A a, b \in 1..Len(s) : s[a] = s[b] => a = b

C4_Failed ==
  err # "none" =>
     /\ pc = "failed" /\ State = "FAILED"
     /\ remote = start.remote
     /\ ~outOpen /\ outBuf = <<>> /\ inflight = {}
     /\ NoRepeat(ocrReqs)
     /\ calls.fetch <= 1 /\ calls.ocr <= 1 /\ calls.upload <= 1
     /\ err = "credentials" => calls = NoCalls /\ dirExists = start.dirExists
     /\ err \in {"credentials", "list"} => dlDone = {} /\ fs = start.fs
     /\ err = "download" => dlDone = 1..(i - 1) /\ Len(image_paths) = i - 1
     /\ err \in {"credentials", "list", "download"} =>
           /\ calls.ocr = 0 /\ calls.upload = 0
           /\ ocrReqs = <<>> /\ written = <<>>
           /\ outDisk = start.outDisk
     /\ err = "ocr" =>
           /\ calls.upload = 0
           /\ ocrReqs = [k \in 1..i |-> k]
           /\ Len(written) = i - 1
     /\ err = "upload" => Len(written) = Len(image_paths) /\ calls.upload = 1
     /\ err \in {"ocr", "upload"} =>
           LET L == LinesOf(outDisk.chars)
           IN  /\ L.rest = <<>>
               /\ Len(L.lines) = Len(written)
               /\ \A k \in 1..Len(written) :
                     /\ json_loads(L.lines[k]).items = written[k]
                     /\ Field(written[k], "image_name") = PyStr(<<basename(image_paths[k])>>)
                     /\ Field(written[k], "extracted_text") = extracted_text(AnswerFor(k))

\* C4: C4_Failed holds in every state, and the only step out of FAILED is
\* the start of a new invocation.
C4_FailFast ==
  /\ []C4_Failed
  /\ [][pc = "failed" => (run' = run + 1 /\ pc' = "start")]_vars

C4_Witness ==
  /\ pc = "failed" /\ err = "ocr"
  /\ Len(image_paths) = 2 /\ i = 2
  /\ Len(LinesOf(outDisk.chars).lines) = 1

\* C5: after every write, each record written so far has exactly the keys
\* image_name, extracted_text and processed_timestamp; its extracted_text is
\* the empty string when the OCR answer for the image has no annotation (a
\* string, not null, and the write step does not fail) and the text of the
\* first annotation otherwise.
C5_Records ==
  pc \in {"ocr_read", "ocr_close"} =>
     LET L == LinesOf(stream)
     IN  /\ Len(L.lines) = Len(written)
         /\ \A k \in 1..Len(written) :
               LET r == json_loads(L.lines[k])
               IN  /\ r.ok
                   /\ KeysOf(r.items) = RecordKeys
                   /\ Field(r.items, "extracted_text") =
                        (IF AnswerFor(k) = <<>> THEN PyStr(<<>>) ELSE PyStr(AnswerFor(k)[1]))

\* C5: C5_Records holds in every state, and the write step always completes
\* with one more record written.
C5_ExtractedText ==
  /\ []C5_Records
  /\ [][pc = "ocr_write" =>
          /\ pc' \in {"ocr_read", "ocr_close"}
          /\ err' = "none"
          /\ Len(written') = Len(written) + 1]_vars

C5_Witness ==
  /\ pc = "ocr_close"
  /\ Len(image_paths) = 2
  /\ AnswerFor(1) # <<>>
  /\ AnswerFor(2) = <<>>
  /\ Field(json_loads(LinesOf(stream).lines[1]).items, "extracted_text")
       = PyStr(<<"T", "\n", "1">>)
  /\ Field(json_loads(LinesOf(stream).lines[2]).items, "extracted_text")
       = PyStr(<<>>)

\* C6: when download_images_from_drive returns, it returns one path for
\* every image file of the folder, in the folder's listing order.
C6_EveryFile ==
  (pc = "fetched" /\ err = "none") =>
     /\ Len(image_paths) = Len(folder)
     /\ \A k \in 1..Len(image_paths) :
           image_paths[k] = os_path_join(LOCAL_IMAGE_DIR, folder[k].name)

\* C7: a successful upload adds exactly one file to the Drive output folder,
\* named after the local file and parented under the destination folder,
\* holding the output file's content, and changes no file already there;
\* after k completed invocations the folder holds k files with k distinct
\* identifiers.
C7_Remote ==
  /\ Len(remote) = published
  /\ \A a, b \in 1..Len(remote) : remote[a].id = remote[b].id => a = b
  /\ \A k \in 1..Len(remote) :
        /\ remote[k].name = OUTPUT_JSONL_FILE
        /\ remote[k].parents = <<OUTPUT_FOLDER_ID>>

\* C7: C7_Remote holds in every state; a successful upload appends one file
\* and keeps the others; nothing else changes the output folder.
C7_NewFilePerUpload ==
  /\ []C7_Remote
  /\ [][ /\ (pc = "upload" /\ pc' = "done") =>
               /\ Len(remote') = Len(remote) + 1
               /\ SubSeq(remote', 1, Len(remote)) = remote
               /\ remote'[Len(remote')].content = outDisk.chars
         /\ remote' # remote => (pc = "upload" /\ pc' = "done") ]_vars

C7_Witness ==
  /\ pc = "done"
  /\ published = 2
  /\ Len(remote) = 2
  /\ remote[1].id # remote[2].id
  /\ remote[1].name = remote[2].name

C9_OwnBytes ==
  pc \in {"ocr_request", "ocr_wait", "ocr_write"} =>
     content = folder[files[i].id].content

====
